---- MODULE Spec2Model ----
(***************************************************************************)
(* State-machine model of the cliporaai backend: the authentication core   *)
(* (app/core/security.py, app/dependencies.py, app/services/auth_service,  *)
(* app/api/v1/auth_router.py) and the ownership-guarded resource services  *)
(* (app/services/{project,video,audio}_service.py over the repositories).  *)
(*                                                                         *)
(* Time is in whole seconds.  Python's None is the empty sequence <<>> and *)
(* a present value x is <<x>>.  Strings that the code parses (the JWT sub) *)
(* are sequences of one-character strings.                                 *)
(***************************************************************************)
EXTENDS Integers, Sequences, FiniteSets, TLC

VARIABLES
    users,             \* table "users": sequence of rows, the id is the index
    now,               \* the wall clock (datetime.utcnow / datetime.now(utc))
    issued,            \* the token the client holds, from its latest login: {[token, user]}
    ALGORITHM,         \* settings.algorithm
    JWT_PRIVATE_KEYS,  \* security._JWT_PRIVATE_KEYS: kid -> key
    JWT_PUBLIC_KEYS,   \* security._JWT_PUBLIC_KEYS: kid -> key
    jwt_kid,           \* settings.jwt_kid (None or <<kid>>)
    environment,       \* settings.environment
    jwt_key_paths,     \* settings.jwt_private_key_path and jwt_public_key_path are set
    phase,             \* the process: "boot", "configured", "serving", "aborted"
    projects,          \* table "projects": id -> row
    videos,            \* table "videos": id -> row
    audios,            \* table "audios": id -> row
    files,             \* the storage backend: set of stored file paths
    nextId,            \* next primary key of each table, next uuid
    last,              \* the operation that completed last and its outcome
    tasks              \* the requests in progress concurrently: slot -> progress

authVars == <<users, now, issued>>
keyVars  == <<ALGORITHM, JWT_PRIVATE_KEYS, JWT_PUBLIC_KEYS, jwt_kid, environment,
             jwt_key_paths, phase>>
resVars  == <<projects, videos, audios, files, nextId>>
vars     == <<users, now, issued, ALGORITHM, JWT_PRIVATE_KEYS, JWT_PUBLIC_KEYS,
              jwt_kid, environment, jwt_key_paths, phase, projects, videos, audios, files,
              nextId, last, tasks>>

None == <<>>
Some(x) == <<x>>

\* ------------------------------------------------------------------ bounds

MaxUsers == 2
MaxNow == 1831
MaxProjects == 1
MaxUploads == 1

\* The clock advances by one of these steps (seconds).
TickSteps == {900, 931}

Emails == {"a@x.com", "b@x.com"}
Passwords == {"pw1", "pw2"}
\* Passwords chosen at registration (logins try every password).
NewPasswords == {"pw1"}

\* ------------------------------------------------------- program constants

ACCESS_TOKEN_EXPIRE_MINUTES == 30
JWT_LEEWAY_SECONDS == 30
DEBOUNCE_SECONDS == 900
JWT_ISSUER == "cliporaai"
JWT_AUDIENCE == "cliporaai-api"
SECRET_KEY == <<"secret", "dev-secret-key">>

\* ------------------------------------------------------------ conversions

Digits == <<"0", "1", "2", "3", "4", "5", "6", "7", "8", "9">>

IsDigit(c) == \E i \in 1..10 : Digits[i] = c

DigitVal(c) == (CHOOSE i \in 1..10 : Digits[i] = c) - 1

\* str(n) for an integer n >= 0: its decimal digits.
RECURSIVE Str(_)
Str(n) == IF n < 10 THEN <<Digits[n + 1]>>
          ELSE Append(Str(n \div 10), Digits[(n % 10) + 1])

RECURSIVE DigitsValue(_)
DigitsValue(s) == IF s = <<>> THEN 0
                  ELSE 10 * DigitsValue(SubSeq(s, 1, Len(s) - 1)) + DigitVal(s[Len(s)])

\* int(s): an optional sign followed by at least one digit; anything else
\* raises ValueError.  [ok, val].
ParseInt(s) ==
    LET signed == Len(s) >= 1 /\ s[1] \in {"-", "+"}
        body == IF signed THEN Tail(s) ELSE s
    IN  IF Len(body) >= 1 /\ \A i \in 1..Len(body) : IsDigit(body[i])
        THEN [ok |-> TRUE,
              val |-> IF signed /\ s[1] = "-" THEN 0 - DigitsValue(body)
                      ELSE DigitsValue(body)]
        ELSE [ok |-> FALSE, val |-> 0]

\* -------------------------------------------------------------- passwords

hash_password(password) == <<"bcrypt", password>>

verify_password(plain_password, hashed_password) ==
    hashed_password = <<"bcrypt", plain_password>>

\* --------------------------------------------------------------- outcomes

\* What an operation hands back to its caller: a value, an HTTPException,
\* or any other exception (an untyped fault, a 500 at the boundary).
Ok(uid) == [kind |-> "ok", status |-> 200, detail |-> "", www |-> FALSE, user |-> uid]

HTTPException(status, detail, www) ==
    [kind |-> "http", status |-> status, detail |-> detail, www |-> www, user |-> 0]

Fault(exc) == [kind |-> "fault", status |-> 500, detail |-> exc, www |-> FALSE, user |-> 0]

credentials_exception == HTTPException(401, "Could not validate credentials", TRUE)

\* ------------------------------------------------------------ token codec

\* A bearer token as the codec sees it.  form: "empty" (the empty string),
\* "garbage" (not a JWT) or "jwt"; key: the key that produced the signature.
Token(form, alg, kid, key, hasSub, sub, exp, iat, iss, aud) ==
    [form |-> form, alg |-> alg, kid |-> kid, key |-> key, hasSub |-> hasSub,
     sub |-> sub, exp |-> exp, iat |-> iat, iss |-> iss, aud |-> aud]

IsAsymmetric == ALGORITHM \in {"RS256", "ES256"}

\* A signature made with signKey verifies under verifyKey.
Verifies(signKey, verifyKey) ==
    \/ signKey[1] = "secret" /\ verifyKey = signKey
    \/ signKey[1] = "priv" /\ verifyKey = <<"pub", signKey[2]>>

\* create_access_token signing with the shared secret when no private key is
\* loaded.
create_access_token_SecretFallback(sub, expires_delta) ==
    LET delta == IF expires_delta = None \/ expires_delta[1] = 0
                 THEN ACCESS_TOKEN_EXPIRE_MINUTES * 60
                 ELSE expires_delta[1]
        kid == IF jwt_kid # None THEN jwt_kid
               ELSE IF DOMAIN JWT_PRIVATE_KEYS # {}
                    THEN Some(CHOOSE k \in DOMAIN JWT_PRIVATE_KEYS : TRUE)
                    ELSE None
        loaded == kid # None /\ kid[1] \in DOMAIN JWT_PRIVATE_KEYS
        signKey == IF IsAsymmetric /\ loaded THEN JWT_PRIVATE_KEYS[kid[1]]
                   ELSE SECRET_KEY
    IN  [kind |-> "token",
         token |-> Token("jwt", ALGORITHM, jwt_kid, signKey, TRUE, sub,
                         now + delta, now, JWT_ISSUER, JWT_AUDIENCE)]

\* create_access_token(data={"sub": sub}, expires_delta): the token, or the
\* RuntimeError raised when no private key is loaded.
create_access_token(sub, expires_delta) ==
    LET delta == IF expires_delta = None \/ expires_delta[1] = 0
                 THEN ACCESS_TOKEN_EXPIRE_MINUTES * 60
                 ELSE expires_delta[1]
        kid == IF jwt_kid # None THEN jwt_kid
               ELSE IF DOMAIN JWT_PRIVATE_KEYS # {}
                    THEN Some(CHOOSE k \in DOMAIN JWT_PRIVATE_KEYS : TRUE)
                    ELSE None
        loaded == kid # None /\ kid[1] \in DOMAIN JWT_PRIVATE_KEYS
        signKey == IF IsAsymmetric
                   THEN (IF loaded THEN JWT_PRIVATE_KEYS[kid[1]] ELSE <<"none", "none">>)
                   ELSE SECRET_KEY
    IN  IF IsAsymmetric /\ ~loaded
        THEN [kind |-> "fault", exc |-> "RuntimeError"]
        ELSE [kind |-> "token",
              token |-> Token("jwt", ALGORITHM, jwt_kid, signKey, TRUE, sub,
                              now + delta, now, JWT_ISSUER, JWT_AUDIENCE)]

\* The key selection falling back to any stored key when the kid is unknown.
verification_key_Fallback(token) ==
    IF ~IsAsymmetric THEN Some(SECRET_KEY)
    ELSE IF token.kid # None /\ token.kid[1] \in DOMAIN JWT_PUBLIC_KEYS
         THEN Some(JWT_PUBLIC_KEYS[token.kid[1]])
    ELSE IF DOMAIN JWT_PUBLIC_KEYS # {}
         THEN Some(JWT_PUBLIC_KEYS[CHOOSE k \in DOMAIN JWT_PUBLIC_KEYS : TRUE])
    ELSE None

\* decode_access_token, the choice of the verification key: None or <<key>>.
\* An empty kid is falsy in Python and counts as no kid.
verification_key(token) ==
    LET kid == token.kid
        hasKid == kid # None /\ kid[1] # ""
    IN  IF ~IsAsymmetric THEN Some(SECRET_KEY)
        ELSE IF hasKid /\ kid[1] \in DOMAIN JWT_PUBLIC_KEYS
             THEN Some(JWT_PUBLIC_KEYS[kid[1]])
        ELSE IF ~hasKid /\ Cardinality(DOMAIN JWT_PUBLIC_KEYS) = 1
             THEN Some(JWT_PUBLIC_KEYS[CHOOSE k \in DOMAIN JWT_PUBLIC_KEYS : TRUE])
        ELSE None

Raise(exc) == [kind |-> "raise", exc |-> exc]

\* jwt.decode counting a token as expired from exp + leeway on.
jwt_decode_ExpInclusive(token, key) ==
    IF token.alg # ALGORITHM \/ ~Verifies(token.key, key) THEN Raise("JWTError")
    ELSE IF token.exp <= now - JWT_LEEWAY_SECONDS THEN Raise("ExpiredSignatureError")
    ELSE IF token.aud # JWT_AUDIENCE THEN Raise("JWTError")
    ELSE IF token.iss # JWT_ISSUER THEN Raise("JWTError")
    ELSE [kind |-> "claims", hasSub |-> token.hasSub, sub |-> token.sub]

\* jose's jwt.decode with the options decode_access_token passes: the
\* signature first, then the claims in the order iat (its type only), exp,
\* aud, iss, sub (its type only).
jwt_decode(token, key) ==
    IF token.alg # ALGORITHM \/ ~Verifies(token.key, key) THEN Raise("JWTError")
    ELSE IF token.exp < now - JWT_LEEWAY_SECONDS THEN Raise("ExpiredSignatureError")
    ELSE IF token.aud # JWT_AUDIENCE THEN Raise("JWTError")
    ELSE IF token.iss # JWT_ISSUER THEN Raise("JWTError")
    ELSE [kind |-> "claims", hasSub |-> token.hasSub, sub |-> token.sub]

\* decode_access_token(token): the payload, credentials_exception, or
\* TokenExpiredError.
decode_access_token(token) ==
    LET key == verification_key(token)
        claims == jwt_decode(token, key[1])
    IN  IF token.form # "jwt" THEN credentials_exception
        ELSE IF key = None THEN credentials_exception
        ELSE IF claims.kind = "raise"
             THEN (IF claims.exc = "ExpiredSignatureError"
                   THEN Fault("TokenExpiredError")
                   ELSE credentials_exception)
        ELSE IF ~claims.hasSub THEN credentials_exception
        ELSE [kind |-> "payload", sub |-> claims.sub]

\* --------------------------------------------------------------- the users

UserIds == 1..Len(users)

\* select(User).where(User.email == email): None or <<id>>.
UserByEmail(email) ==
    IF \E i \in UserIds : users[i].email = email
    THEN Some(CHOOSE i \in UserIds : users[i].email = email)
    ELSE None

\* select(User).where(User.id == uid): None or <<id>>.
UserById(uid) == IF uid \in UserIds THEN Some(uid) ELSE None

NewUser(email, password) ==
    [email |-> email, hashed_password |-> hash_password(password),
     is_active |-> TRUE, last_login_at |-> None, updated_at |-> None]

\* -------------------------------------------------------- auth orchestrator

\* AuthService.register without the uniqueness check.
AuthService_register_NoCheck(email, password) == Ok(Len(users) + 1)

\* AuthService.register: the outcome; the row is added by the action.
AuthService_register(email, password) ==
    IF UserByEmail(email) # None
    THEN HTTPException(400, "Email already registered", FALSE)
    ELSE Ok(Len(users) + 1)

\* AuthService.authenticate: None or <<id>>.
AuthService_authenticate(email, password) ==
    LET user == UserByEmail(email)
    IN  IF user = None THEN None
        ELSE IF ~verify_password(password, users[user[1]].hashed_password) THEN None
        ELSE user

\* AuthService.create_token minting the zero-based row index as sub.
AuthService_create_token_OffByOne(uid) ==
    create_access_token(Str(uid - 1), Some(ACCESS_TOKEN_EXPIRE_MINUTES * 60))

\* AuthService.create_token(user): create_access_token's result.
AuthService_create_token(uid) ==
    create_access_token(Str(uid), Some(ACCESS_TOKEN_EXPIRE_MINUTES * 60))

\* login telling an unknown email apart from a wrong password.
login_Leaky(email, password) ==
    LET user == AuthService_authenticate(email, password)
        made == AuthService_create_token(user[1])
    IN  IF UserByEmail(email) = None
        THEN [out |-> HTTPException(404, "User not found", TRUE), ret |-> None]
        ELSE IF user = None
        THEN [out |-> HTTPException(401, "Incorrect email or password", TRUE),
              ret |-> None]
        ELSE IF made.kind = "fault"
        THEN [out |-> Fault(made.exc), ret |-> None]
        ELSE [out |-> Ok(user[1]), ret |-> Some(made.token)]

\* POST /auth/login: [out, ret] with ret the token handed back.
login(email, password) ==
    LET user == AuthService_authenticate(email, password)
        made == AuthService_create_token(user[1])
    IN  IF user = None
        THEN [out |-> HTTPException(401, "Incorrect email or password", TRUE),
              ret |-> None]
        ELSE IF made.kind = "fault"
        THEN [out |-> Fault(made.exc), ret |-> None]
        ELSE [out |-> Ok(user[1]), ret |-> Some(made.token)]

\* AuthService.get_current_user(token), the resolver behind GET /auth/me.
AuthService_get_current_user(token) ==
    LET payload == decode_access_token(token)
        parsed == ParseInt(payload.sub)
        user == UserById(parsed.val)
    IN  IF payload.kind # "payload" THEN payload
        ELSE IF ~parsed.ok THEN Fault("ValueError")
        ELSE IF user = None THEN HTTPException(401, "User not found", FALSE)
        ELSE IF ~users[user[1]].is_active
             THEN HTTPException(401, "Inactive user", FALSE)
        ELSE Ok(user[1])

\* -------------------------------------------------------- identity resolver

\* dependencies.get_current_user_token(credentials): credentials is None or
\* <<token>>.
get_current_user_token(credentials) ==
    IF credentials = None \/ credentials[1].form = "empty"
    THEN HTTPException(401, "Missing bearer token", TRUE)
    ELSE [kind |-> "value", token |-> credentials[1]]

\* dependencies.verify_token(token).
verify_token(token) ==
    LET payload == decode_access_token(token)
    IN  IF payload.kind = "fault" /\ payload.detail = "TokenExpiredError"
        THEN HTTPException(401, "Token has expired", TRUE)
        ELSE payload

\* The debounce test with the window's end counted as outside it.
ShouldRefresh_Inclusive(last_login) ==
    last_login = None \/ now - last_login[1] >= DEBOUNCE_SECONDS

\* The debounce test of dependencies.get_current_user on the row it loaded.
ShouldRefresh(last_login) ==
    last_login = None \/ now - last_login[1] > DEBOUNCE_SECONDS

\* dependencies.get_current_user without the is_active test.
get_current_user_NoActiveTest(token_payload) ==
    LET user_id == token_payload.sub
        parsed == ParseInt(user_id)
        user == UserById(parsed.val)
    IN  IF user_id = <<>> THEN credentials_exception
        ELSE IF ~parsed.ok THEN Fault("ValueError")
        ELSE IF user = None THEN credentials_exception
        ELSE Ok(user[1])

\* dependencies.get_current_user(token_payload): the outcome.
get_current_user(token_payload) ==
    LET user_id == token_payload.sub
        parsed == ParseInt(user_id)
        user == UserById(parsed.val)
    IN  IF user_id = <<>> THEN credentials_exception
        ELSE IF ~parsed.ok THEN Fault("ValueError")
        ELSE IF user = None THEN credentials_exception
        ELSE IF ~users[user[1]].is_active
             THEN HTTPException(403, "Inactive user", FALSE)
        ELSE Ok(user[1])

\* The dependency chain get_current_user_token -> verify_token ->
\* get_current_user as FastAPI runs it for a protected endpoint.
ResolveDependency(credentials) ==
    LET tok == get_current_user_token(credentials)
        payload == verify_token(tok.token)
    IN  IF tok.kind # "value" THEN tok
        ELSE IF payload.kind # "payload" THEN payload
        ELSE get_current_user(payload)

\* ------------------------------------------------------------------ inputs

ServerKey == IF IsAsymmetric /\ DOMAIN JWT_PRIVATE_KEYS # {}
             THEN JWT_PRIVATE_KEYS[CHOOSE k \in DOMAIN JWT_PRIVATE_KEYS : TRUE]
             ELSE SECRET_KEY

\* A token the server's key signed now for subject sub, exp seconds ahead.
Signed(sub, hasSub, ttl, iss, aud) ==
    Token("jwt", ALGORITHM, jwt_kid, ServerKey, hasSub, sub, now + ttl, now, iss, aud)

TTL == ACCESS_TOKEN_EXPIRE_MINUTES * 60

\* Subjects a presented token may carry besides the ids of the users.
OddSubs == {<<>>, <<"a">>, <<"0", "1">>, <<"9">>, <<"-", "1">>}

\* Tokens nobody was handed by login but a caller may present.
CraftedTokens ==
    {Token("empty", "", None, <<"none", "none">>, FALSE, <<>>, 0, 0, "", ""),
     Token("garbage", "", None, <<"none", "none">>, FALSE, <<>>, 0, 0, "", ""),
     Token("jwt", ALGORITHM, jwt_kid, <<"secret", "attacker">>, TRUE, <<"1">>,
           now + TTL, now, JWT_ISSUER, JWT_AUDIENCE),
     Signed(<<"1">>, TRUE, TTL, "other", JWT_AUDIENCE),
     Signed(<<"1">>, TRUE, TTL, JWT_ISSUER, "other"),
     Signed(<<>>, FALSE, TTL, JWT_ISSUER, JWT_AUDIENCE),
     Signed(<<"1">>, TRUE, 0 - JWT_LEEWAY_SECONDS, JWT_ISSUER, JWT_AUDIENCE),
     Signed(<<"1">>, TRUE, 0 - JWT_LEEWAY_SECONDS - 1, JWT_ISSUER, JWT_AUDIENCE)}
    \cup {Signed(sub, TRUE, TTL, JWT_ISSUER, JWT_AUDIENCE) : sub \in OddSubs}

PresentedTokens == {i.token : i \in issued} \cup CraftedTokens

Credentials == {None} \cup {Some(t) : t \in PresentedTokens}

\* ----------------------------------------------------------------- actions

Done(op, arg, out, ret) == [op |-> op, arg |-> arg, out |-> out, ret |-> ret]

\* A completed operation that called the storage backend: deleted is the
\* sequence of the file paths it handed to delete_file.
DoneStorage(op, arg, out, ret, deleted) ==
    [op |-> op, arg |-> arg, out |-> out, ret |-> ret, deleted |-> deleted]

\* No request is in progress: the last response was delivered.
Idle == Done("idle", [d |-> 0], Ok(0), None)

\* A server admitting requests while startup is still running.
Admitted_Early == phase # "aborted"

\* Requests are admitted once lifespan's startup part has run to its yield.
Admitted == phase = "serving"

Ready == last = Idle /\ Admitted

\* The response of the request in progress is delivered; requests are served
\* one after the other.
Return ==
    /\ last # Idle
    /\ last' = Idle
    /\ UNCHANGED <<authVars, keyVars, resVars, tasks>>

\* POST /auth/register.
Register(email, password) ==
    LET out == AuthService_register(email, password)
    IN  /\ Ready
        /\ out.kind = "ok" => Len(users) < MaxUsers
        /\ users' = IF out.kind = "ok"
                    THEN Append(users, NewUser(email, password))
                    ELSE users
        /\ last' = Done("register", [email |-> email, password |-> password], out, None)
        /\ UNCHANGED <<now, issued, keyVars, resVars, tasks>>

\* POST /auth/login.
Login(email, password) ==
    LET r == login(email, password)
    IN  /\ Ready
        /\ issued' = IF r.ret = None THEN issued
                      ELSE {[token |-> r.ret[1], user |-> r.out.user]}
        /\ last' = Done("login", [email |-> email, password |-> password], r.out, r.ret)
        /\ UNCHANGED <<users, now, keyVars, resVars, tasks>>

\* The refresh written as an UPDATE without its WHERE clause.
refresh_last_login_AllRows(uid) ==
    [i \in DOMAIN users |->
        [users[i] EXCEPT !.last_login_at = Some(now), !.updated_at = Some(now)]]

\* user.last_login_at = now; db.commit(): the users table after the refresh
\* (updated_at follows by onupdate).
refresh_last_login(uid) ==
    [users EXCEPT ![uid].last_login_at = Some(now), ![uid].updated_at = Some(now)]

\* Any protected endpoint: Depends(get_current_user), with the refresh of
\* last_login_at (and of updated_at, onupdate) it commits.
GetCurrentUser(credentials) ==
    LET out == ResolveDependency(credentials)
        refresh == out.kind = "ok" /\ ShouldRefresh(users[out.user].last_login_at)
    IN  /\ Ready
        /\ users' = IF refresh THEN refresh_last_login(out.user) ELSE users
        /\ last' = Done("resolve", [credentials |-> credentials], out, None)
        /\ UNCHANGED <<now, issued, keyVars, resVars, tasks>>

\* GET /auth/me: Depends(_current_user) -> AuthService.get_current_user.
ReadUsersMe(token) ==
    LET out == AuthService_get_current_user(token)
    IN  /\ Ready
        /\ last' = Done("me", [token |-> token], out, None)
        /\ UNCHANGED <<users, now, issued, keyVars, resVars, tasks>>

\* The row's is_active is cleared in the database (no endpoint does it).
Deactivate(uid) ==
    /\ Ready
    /\ uid \in UserIds
    /\ users[uid].is_active
    /\ users' = [users EXCEPT ![uid].is_active = FALSE, ![uid].updated_at = Some(now)]
    /\ UNCHANGED <<now, issued, keyVars, resVars, last, tasks>>

\* Time passes.
Tick(d) ==
    /\ Ready
    /\ now + d <= MaxNow
    /\ now' = now + d
    /\ UNCHANGED <<users, issued, keyVars, resVars, last, tasks>>

NoKeys == [k \in {} |-> <<"none", "none">>]

\* The slots of the requests handled concurrently.
Tasks == {1, 2}

\* A slot no request occupies.
FreeTask == [pc |-> "free"]

NoTasks == [t \in Tasks |-> FreeTask]

Init ==
    /\ users = <<>>
    /\ now = 0
    /\ issued = {}
    /\ ALGORITHM = "HS256"
    /\ JWT_PRIVATE_KEYS = NoKeys
    /\ JWT_PUBLIC_KEYS = NoKeys
    /\ jwt_kid = None
    /\ environment = "development"
    /\ jwt_key_paths = FALSE
    /\ phase = "serving"
    /\ projects = <<>>
    /\ videos = <<>>
    /\ audios = <<>>
    /\ files = {}
    /\ nextId = [project |-> 1, video |-> 1, audio |-> 1, uuid |-> 1]
    /\ last = Idle
    /\ tasks = NoTasks

Next ==
    \/ \E e \in Emails, p \in NewPasswords : Register(e, p)
    \/ \E e \in Emails, p \in Passwords : Login(e, p)
    \/ \E c \in Credentials : GetCurrentUser(c)
    \/ \E t \in PresentedTokens : ReadUsersMe(t)
    \/ \E u \in 1..MaxUsers : Deactivate(u)
    \/ \E d \in TickSteps : Tick(d)
    \/ Return

Spec == Init /\ [][Next]_vars

\* ---------------------------------------------------------- process startup

\* The key pair in the files the key paths name.
KeyPairOnDisk == [private |-> <<"priv", "pem">>, public |-> <<"pub", "pem">>]

\* Settings._validate_jwt_keys, run when app.core.config is imported:
\* readable tells whether both key files exist and can be read then.
Settings_validate_jwt_keys(readable) ==
    IF ~IsAsymmetric
    THEN IF environment = "production" /\ SECRET_KEY = <<"secret", "dev-secret-key">>
         THEN "ValueError"
         ELSE "ok"
    ELSE IF ~jwt_key_paths THEN "ValueError"
    ELSE IF ~readable THEN "ValueError"
    ELSE "ok"

\* load_jwt_keys(): the stores it leaves and whether it raises; readable
\* tells whether Path.read_text succeeds on both files.
load_jwt_keys(readable) ==
    LET kid == IF jwt_kid # None /\ jwt_kid[1] # "" THEN jwt_kid[1] ELSE "default"
        same == [private |-> JWT_PRIVATE_KEYS, public |-> JWT_PUBLIC_KEYS, raised |-> FALSE]
    IN  IF ~IsAsymmetric THEN same
        ELSE IF ~jwt_key_paths THEN same
        ELSE IF readable
             THEN [private |-> (kid :> KeyPairOnDisk.private),
                   public |-> (kid :> KeyPairOnDisk.public),
                   raised |-> FALSE]
        ELSE [same EXCEPT !.raised = environment = "production"]

\* The settings module is imported: the process goes on or dies.
ImportSettings(readable) ==
    LET res == Settings_validate_jwt_keys(readable)
    IN  /\ phase = "boot"
        /\ phase' = IF res = "ok" THEN "configured" ELSE "aborted"
        /\ last' = Done("import", [loadable |-> jwt_key_paths /\ readable],
                        IF res = "ok" THEN Ok(0) ELSE Fault(res), None)
        /\ UNCHANGED <<authVars, resVars, ALGORITHM, JWT_PRIVATE_KEYS,
                       JWT_PUBLIC_KEYS, jwt_kid, environment, jwt_key_paths, tasks>>

\* lifespan's startup part up to its yield, as far as the keys go.
lifespan(readable) ==
    LET loaded == load_jwt_keys(readable)
        fatal == loaded.raised /\ environment = "production"
    IN  /\ phase = "configured"
        /\ JWT_PRIVATE_KEYS' = loaded.private
        /\ JWT_PUBLIC_KEYS' = loaded.public
        /\ phase' = IF fatal THEN "aborted" ELSE "serving"
        /\ last' = Done("lifespan", [loadable |-> jwt_key_paths /\ readable],
                        IF fatal THEN Fault("OSError") ELSE Ok(0), None)
        /\ UNCHANGED <<authVars, resVars, ALGORITHM, jwt_kid, environment,
                       jwt_key_paths, tasks>>

\* A protected endpoint whose commit of the last_login_at refresh raises.
GetCurrentUserCommitFails(credentials) ==
    LET out == ResolveDependency(credentials)
        refresh == out.kind = "ok" /\ ShouldRefresh(users[out.user].last_login_at)
    IN  /\ Ready
        /\ refresh = TRUE
        /\ last' = Done("resolve", [credentials |-> credentials, commit |-> "raises"],
                        Fault("SQLAlchemyError"), None)
        /\ UNCHANGED <<authVars, keyVars, resVars, tasks>>

\* Tokens handed to the codec: each departs from a valid token of user 1 in
\* the header's kid, the signing key, or one claim.
CodecToken(kid, key, hasSub, sub, ttl, ahead, iss, aud) ==
    Token("jwt", ALGORITHM, kid, key, hasSub, sub, now + ttl, now + ahead, iss, aud)

SigningKey == IF IsAsymmetric THEN KeyPairOnDisk.private ELSE SECRET_KEY

Kids == {None, Some("k1"), Some("default"), Some("other")}

CodecTokens ==
    {Token("garbage", "", None, <<"none", "none">>, FALSE, <<>>, 0, 0, "", "")}
    \cup {CodecToken(kid, key, TRUE, <<"1">>, TTL, 0, JWT_ISSUER, JWT_AUDIENCE) :
            kid \in Kids, key \in {SigningKey, <<"secret", "attacker">>, <<"priv", "attacker">>}}
    \cup {CodecToken(jwt_kid, SigningKey, TRUE, <<"1">>, ttl, 0, JWT_ISSUER, JWT_AUDIENCE) :
            ttl \in {0, 0 - JWT_LEEWAY_SECONDS, 0 - JWT_LEEWAY_SECONDS - 1}}
    \cup {CodecToken(jwt_kid, SigningKey, TRUE, <<"1">>, TTL + 1000, 1000, JWT_ISSUER, JWT_AUDIENCE),
          CodecToken(jwt_kid, SigningKey, TRUE, <<"1">>, TTL, 0, "other", JWT_AUDIENCE),
          CodecToken(jwt_kid, SigningKey, TRUE, <<"1">>, TTL, 0, JWT_ISSUER, "other"),
          CodecToken(jwt_kid, SigningKey, FALSE, <<>>, TTL, 0, JWT_ISSUER, JWT_AUDIENCE),
          CodecToken(jwt_kid, SigningKey, TRUE, <<>>, TTL, 0, JWT_ISSUER, JWT_AUDIENCE)}

\* decode_access_token called on a token.
Decode(token) ==
    /\ Ready
    /\ last' = Done("decode", [token |-> token], decode_access_token(token), None)
    /\ UNCHANGED <<authVars, keyVars, resVars, tasks>>

Algorithms == {"HS256", "RS256"}

Environments == {"development", "staging", "production"}

\* A process about to start, over a database that holds one user.
InitBoot ==
    /\ users = <<NewUser("a@x.com", "pw1")>>
    /\ now = 0
    /\ issued = {}
    /\ ALGORITHM \in Algorithms
    /\ JWT_PRIVATE_KEYS = NoKeys
    /\ JWT_PUBLIC_KEYS = NoKeys
    /\ jwt_kid \in {None, Some("k1")}
    /\ environment \in Environments
    /\ jwt_key_paths \in BOOLEAN
    /\ phase = "boot"
    /\ projects = <<>>
    /\ videos = <<>>
    /\ audios = <<>>
    /\ files = {}
    /\ nextId = [project |-> 1, video |-> 1, audio |-> 1, uuid |-> 1]
    /\ last = Idle
    /\ tasks = NoTasks

NextBoot ==
    \/ \E readable \in BOOLEAN : ImportSettings(readable)
    \/ \E readable \in BOOLEAN : lifespan(readable)
    \/ \E e \in Emails, p \in Passwords : Login(e, p)
    \/ \E c \in Credentials : GetCurrentUser(c)
    \/ \E c \in Credentials : GetCurrentUserCommitFails(c)
    \/ \E t \in CodecTokens : Decode(t)
    \/ \E u \in 1..MaxUsers : Deactivate(u)
    \/ \E d \in TickSteps : Tick(d)
    \/ Return

SpecBoot == InitBoot /\ [][NextBoot]_vars

\* ------------------------------------------------------ resource services

Insert(table, id, row) == (id :> row) @@ table

Remove(table, ids) == [i \in DOMAIN table \ ids |-> table[i]]

\* Members of models.project.ProjectType, by name.
ModelProjectType == {"DYNAMIC", "CINEMATIC", "DOCUMENTARY", "SOCIAL", "CUSTOM"}

\* str.upper() on the project types callers send.
Upper(s) ==
    CASE s = "dynamic" -> "DYNAMIC"
      [] s = "cinematic" -> "CINEMATIC"
      [] s = "documentary" -> "DOCUMENTARY"
      [] s = "social" -> "SOCIAL"
      [] s = "custom" -> "CUSTOM"
      [] s = "bogus" -> "BOGUS"
      [] OTHER -> s

\* ProjectService.get_project.
get_project(project_id, user_id) ==
    IF project_id \notin DOMAIN projects
    THEN HTTPException(404, <<"Project with ID", project_id, "not found">>, FALSE)
    ELSE IF projects[project_id].user_id # user_id
    THEN HTTPException(403, "Not authorized to access this project", FALSE)
    ELSE Ok(project_id)

\* VideoService.get_video.
get_video(video_id, user_id) ==
    IF video_id \notin DOMAIN videos
    THEN HTTPException(404, <<"Video with ID", video_id, "not found">>, FALSE)
    ELSE IF videos[video_id].user_id # user_id
    THEN HTTPException(403, "Not authorized to access this video", FALSE)
    ELSE Ok(video_id)

\* AudioService.get_audio.
get_audio(audio_id, user_id) ==
    IF audio_id \notin DOMAIN audios
    THEN HTTPException(404, <<"Audio with ID", audio_id, "not found">>, FALSE)
    ELSE IF audios[audio_id].user_id # user_id
    THEN HTTPException(403, "Not authorized to access this audio file", FALSE)
    ELSE Ok(audio_id)

\* BaseRepository.update on a row: every field the payload sets (a field is
\* unset when None) replaces the row's.
BaseRepository_update(row, update_data) ==
    [f \in DOMAIN row |->
        IF f \in DOMAIN update_data /\ update_data[f] # None
        THEN update_data[f][1] ELSE row[f]]

\* BaseRepository.delete answering without removing the row.
BaseRepository_delete_Keep(table, obj_id) ==
    IF obj_id \notin DOMAIN table
    THEN [out |-> Fault("ValueError"), table |-> table]
    ELSE [out |-> Ok(obj_id), table |-> table]

\* BaseRepository.delete(obj_id) on a table: ValueError when the row is gone.
BaseRepository_delete(table, obj_id) ==
    IF obj_id \notin DOMAIN table
    THEN [out |-> Fault("ValueError"), table |-> table]
    ELSE [out |-> Ok(obj_id), table |-> Remove(table, {obj_id})]

\* LocalStorageService.delete_file: the files left, with broken the os.remove
\* that raises; the boolean it returns is dropped by the services.
delete_file(file_path, broken) ==
    IF file_path \notin files THEN files
    ELSE IF broken THEN files
    ELSE files \ {file_path}

\* The rows a delete of the project takes along (cascade="all,
\* delete-orphan" on Project.videos and Project.audios).
CascadeOf(table, project_id) == {i \in DOMAIN table : table[i].project_id = project_id}

\* {Project,Video,Audio}Repository.get_by_user: the ids of the rows selected.
get_by_user(table, user_id) == {i \in DOMAIN table : table[i].user_id = user_id}

\* {Video,Audio}Repository.get_by_project.
get_by_project(table, project_id) ==
    {i \in DOMAIN table : table[i].project_id = project_id}

\* ProjectService.list_projects.
list_projects(user_id) == get_by_user(projects, user_id)

\* VideoService.get_videos_by_user.
get_videos_by_user(user_id) == get_by_user(videos, user_id)

\* VideoService.get_videos_by_project handing on what the repository selected.
get_videos_by_project_Unfiltered(project_id, user_id) ==
    get_by_project(videos, project_id)

\* VideoService.get_videos_by_project.
get_videos_by_project(project_id, user_id) ==
    {i \in get_by_project(videos, project_id) : videos[i].user_id = user_id}

\* AudioService.get_audios_by_user.
get_audios_by_user(user_id) == get_by_user(audios, user_id)

\* AudioService.get_audios_by_project.
get_audios_by_project(project_id, user_id) ==
    {i \in get_by_project(audios, project_id) : audios[i].user_id = user_id}

\* The rows a listing returns, each with its id.
Rows(table, ids) == {[id |-> i, row |-> table[i]] : i \in ids}

\* The table of a resource type.
TableOf(kind) ==
    CASE kind = "project" -> projects
      [] kind = "video" -> videos
      [] kind = "audio" -> audios

\* ----------------------------------------------------------- resource ops

Call(kind, id, caller) == [kind |-> kind, id |-> id, caller |-> caller]

\* ProjectService.create_project.
CreateProject(project_type, user_id) ==
    LET id == nextId.project
        known == Upper(project_type) \in ModelProjectType
        row == [user_id |-> user_id, name |-> "n1", project_type |-> Upper(project_type)]
    IN  /\ Ready
        /\ known => id <= MaxProjects
        /\ projects' = IF known THEN Insert(projects, id, row) ELSE projects
        /\ nextId' = IF known THEN [nextId EXCEPT !.project = id + 1] ELSE nextId
        /\ last' = Done("create", Call("project", id, user_id),
                        IF known THEN Ok(id) ELSE Fault("KeyError"), None)
        /\ UNCHANGED <<authVars, keyVars, videos, audios, files, tasks>>

\* ProjectService.get_project behind GET /projects/{id}.
GetProject(project_id, user_id) ==
    /\ Ready
    /\ last' = Done("get", Call("project", project_id, user_id),
                    get_project(project_id, user_id), None)
    /\ UNCHANGED <<authVars, keyVars, resVars, tasks>>

\* ProjectService.update_project: update_data is [name, project_type], each
\* None (unset) or <<value>>.
UpdateProject(project_id, update_data, user_id) ==
    LET guard == get_project(project_id, user_id)
        known == \/ update_data.project_type = None
                 \/ Upper(update_data.project_type[1]) \in ModelProjectType
        payload == [update_data EXCEPT
                      !.project_type = IF @ = None THEN None ELSE Some(Upper(@[1]))]
        out == IF guard.kind # "ok" THEN guard
               ELSE IF ~known THEN Fault("KeyError")
               ELSE Ok(project_id)
    IN  /\ Ready
        /\ projects' = IF out.kind = "ok"
                       THEN [projects EXCEPT
                               ![project_id] = BaseRepository_update(@, payload)]
                       ELSE projects
        /\ last' = Done("update", Call("project", project_id, user_id), out, None)
        /\ UNCHANGED <<authVars, keyVars, videos, audios, files, nextId, tasks>>

\* ProjectService.delete_project: the row and, by the ORM cascade, the video
\* and audio rows of the project.
DeleteProject(project_id, user_id) ==
    LET guard == get_project(project_id, user_id)
        gone == BaseRepository_delete(projects, project_id)
        out == IF guard.kind # "ok" THEN guard ELSE gone.out
    IN  /\ Ready
        /\ projects' = IF out.kind = "ok" THEN gone.table ELSE projects
        /\ videos' = IF out.kind = "ok"
                     THEN Remove(videos, CascadeOf(videos, project_id)) ELSE videos
        /\ audios' = IF out.kind = "ok"
                     THEN Remove(audios, CascadeOf(audios, project_id)) ELSE audios
        /\ last' = Done("delete", Call("project", project_id, user_id), out, None)
        /\ UNCHANGED <<authVars, keyVars, files, nextId, tasks>>

\* VideoService.create_video behind POST /files/videos/upload, with the form
\* field title given: the file is saved first; the insert fails on the
\* foreign key when the project is gone.
CreateVideo(project_id, user_id) ==
    LET id == nextId.video
        file_path == <<user_id, "videos", nextId.uuid>>
        row == [user_id |-> user_id, project_id |-> project_id, title |-> "t1",
                file_path |-> file_path, status |-> "uploading"]
        stored == project_id \in DOMAIN projects
    IN  /\ Ready
        /\ nextId.uuid <= MaxUploads
        /\ files' = files \cup {file_path}
        /\ videos' = IF stored THEN Insert(videos, id, row) ELSE videos
        /\ nextId' = [nextId EXCEPT !.uuid = @ + 1,
                                    !.video = IF stored THEN id + 1 ELSE @]
        /\ last' = Done("create", Call("video", id, user_id),
                        IF stored THEN Ok(id) ELSE Fault("IntegrityError"), None)
        /\ UNCHANGED <<authVars, keyVars, projects, audios, tasks>>

\* VideoService.get_video behind GET /files/videos/{id}.
GetVideo(video_id, user_id) ==
    /\ Ready
    /\ last' = Done("get", Call("video", video_id, user_id),
                    get_video(video_id, user_id), None)
    /\ UNCHANGED <<authVars, keyVars, resVars, tasks>>

\* VideoService.update_video: update_data is [title], None or <<value>>.
UpdateVideo(video_id, update_data, user_id) ==
    LET out == get_video(video_id, user_id)
    IN  /\ Ready
        /\ videos' = IF out.kind = "ok"
                     THEN [videos EXCEPT
                             ![video_id] = BaseRepository_update(@, update_data)]
                     ELSE videos
        /\ last' = Done("update", Call("video", video_id, user_id), out, None)
        /\ UNCHANGED <<authVars, keyVars, projects, audios, files, nextId, tasks>>

\* VideoService.update_video_status.
UpdateVideoStatus(video_id, status, user_id) ==
    LET out == get_video(video_id, user_id)
    IN  /\ Ready
        /\ videos' = IF out.kind = "ok"
                     THEN [videos EXCEPT ![video_id].status = status]
                     ELSE videos
        /\ last' = Done("update_status", Call("video", video_id, user_id), out, None)
        /\ UNCHANGED <<authVars, keyVars, projects, audios, files, nextId, tasks>>

\* VideoService.delete_video: the file, then the row.
DeleteVideo(video_id, user_id, broken) ==
    LET guard == get_video(video_id, user_id)
        gone == BaseRepository_delete(videos, video_id)
        out == IF guard.kind # "ok" THEN guard ELSE gone.out
    IN  /\ Ready
        /\ files' = IF guard.kind = "ok"
                    THEN delete_file(videos[video_id].file_path, broken)
                    ELSE files
        /\ videos' = IF out.kind = "ok" THEN gone.table ELSE videos
        /\ last' = DoneStorage("delete", Call("video", video_id, user_id), out, None,
                               IF guard.kind = "ok"
                               THEN <<videos[video_id].file_path>> ELSE <<>>)
        /\ UNCHANGED <<authVars, keyVars, projects, audios, nextId, tasks>>

\* AudioService.create_audio behind POST /files/audios/upload.
CreateAudio(project_id, user_id) ==
    LET id == nextId.audio
        file_path == <<user_id, "audios", nextId.uuid>>
        row == [user_id |-> user_id, project_id |-> project_id, title |-> "t1",
                file_path |-> file_path, status |-> "uploading"]
        stored == project_id \in DOMAIN projects
    IN  /\ Ready
        /\ nextId.uuid <= MaxUploads
        /\ files' = files \cup {file_path}
        /\ audios' = IF stored THEN Insert(audios, id, row) ELSE audios
        /\ nextId' = [nextId EXCEPT !.uuid = @ + 1,
                                    !.audio = IF stored THEN id + 1 ELSE @]
        /\ last' = Done("create", Call("audio", id, user_id),
                        IF stored THEN Ok(id) ELSE Fault("IntegrityError"), None)
        /\ UNCHANGED <<authVars, keyVars, projects, videos, tasks>>

\* AudioService.get_audio behind GET /files/audios/{id}.
GetAudio(audio_id, user_id) ==
    /\ Ready
    /\ last' = Done("get", Call("audio", audio_id, user_id),
                    get_audio(audio_id, user_id), None)
    /\ UNCHANGED <<authVars, keyVars, resVars, tasks>>

\* AudioService.update_audio.
UpdateAudio(audio_id, update_data, user_id) ==
    LET out == get_audio(audio_id, user_id)
    IN  /\ Ready
        /\ audios' = IF out.kind = "ok"
                     THEN [audios EXCEPT
                             ![audio_id] = BaseRepository_update(@, update_data)]
                     ELSE audios
        /\ last' = Done("update", Call("audio", audio_id, user_id), out, None)
        /\ UNCHANGED <<authVars, keyVars, projects, videos, files, nextId, tasks>>

\* AudioService.update_audio_status.
UpdateAudioStatus(audio_id, status, user_id) ==
    LET out == get_audio(audio_id, user_id)
    IN  /\ Ready
        /\ audios' = IF out.kind = "ok"
                     THEN [audios EXCEPT ![audio_id].status = status]
                     ELSE audios
        /\ last' = Done("update_status", Call("audio", audio_id, user_id), out, None)
        /\ UNCHANGED <<authVars, keyVars, projects, videos, files, nextId, tasks>>

\* AudioService.delete_audio: the file, then the row.
DeleteAudio(audio_id, user_id, broken) ==
    LET guard == get_audio(audio_id, user_id)
        gone == BaseRepository_delete(audios, audio_id)
        out == IF guard.kind # "ok" THEN guard ELSE gone.out
    IN  /\ Ready
        /\ files' = IF guard.kind = "ok"
                    THEN delete_file(audios[audio_id].file_path, broken)
                    ELSE files
        /\ audios' = IF out.kind = "ok" THEN gone.table ELSE audios
        /\ last' = DoneStorage("delete", Call("audio", audio_id, user_id), out, None,
                               IF guard.kind = "ok"
                               THEN <<audios[audio_id].file_path>> ELSE <<>>)
        /\ UNCHANGED <<authVars, keyVars, projects, videos, nextId, tasks>>

Listing(kind, project_id, caller) == [kind |-> kind, project_id |-> project_id, caller |-> caller]

\* GET /projects.
ListProjects(user_id) ==
    /\ Ready
    /\ last' = Done("list", Listing("project", None, user_id), Ok(0),
                    Some(Rows(projects, list_projects(user_id))))
    /\ UNCHANGED <<authVars, keyVars, resVars, tasks>>

\* GET /files/videos: project_id is None or <<id>>.
ListVideos(project_id, user_id) ==
    /\ Ready
    /\ last' = Done("list", Listing("video", project_id, user_id), Ok(0),
                    Some(Rows(videos,
                              IF project_id # None
                              THEN get_videos_by_project(project_id[1], user_id)
                              ELSE get_videos_by_user(user_id))))
    /\ UNCHANGED <<authVars, keyVars, resVars, tasks>>

\* GET /files/audios.
ListAudios(project_id, user_id) ==
    /\ Ready
    /\ last' = Done("list", Listing("audio", project_id, user_id), Ok(0),
                    Some(Rows(audios,
                              IF project_id # None
                              THEN get_audios_by_project(project_id[1], user_id)
                              ELSE get_audios_by_user(user_id))))
    /\ UNCHANGED <<authVars, keyVars, resVars, tasks>>

\* The resource services run for two registered principals.
InitRes ==
    /\ users = <<NewUser("a@x.com", "pw1"), NewUser("b@x.com", "pw1")>>
    /\ now = 0
    /\ issued = {}
    /\ ALGORITHM = "HS256"
    /\ JWT_PRIVATE_KEYS = NoKeys
    /\ JWT_PUBLIC_KEYS = NoKeys
    /\ jwt_kid = None
    /\ environment = "development"
    /\ jwt_key_paths = FALSE
    /\ phase = "serving"
    /\ projects = <<>>
    /\ videos = <<>>
    /\ audios = <<>>
    /\ files = {}
    /\ nextId = [project |-> 1, video |-> 1, audio |-> 1, uuid |-> 1]
    /\ last = Idle
    /\ tasks = NoTasks

ProjectTypes == {"cinematic", "bogus"}

\* JSON bodies of PATCH /projects/{id}: each key absent (None) or <<value>>.
ProjectBodies == [name : {None, Some("n2")},
                  project_type : {None} \cup {Some(t) : t \in ProjectTypes},
                  user_id : {None, Some(1), Some(2)}]

\* A ProjectUpdate schema that keeps the keys it does not declare.
ProjectUpdate_AllowExtra(body) == body

\* schemas.project.ProjectUpdate parsed from a body: undeclared keys are
\* ignored.
ProjectUpdate(body) == [name |-> body.name, project_type |-> body.project_type]

ProjectUpdates == {ProjectUpdate(body) : body \in ProjectBodies}

\* JSON bodies of PATCH /files/videos/{id} and /files/audios/{id}.
FileBodies == [title : {None, Some("t2")}, user_id : {None, Some(1), Some(2)}]

\* schemas.file.FileUpdate parsed from a body.
FileUpdate(body) == [title |-> body.title]

FileUpdates == {FileUpdate(body) : body \in FileBodies}

ProjectIds == 1..MaxProjects
FileIds == 1..MaxUploads

\* The project_id query parameter of the list endpoints.
ProjectFilters == {None} \cup {Some(p) : p \in ProjectIds}

NextRes ==
    \/ \E t \in ProjectTypes, c \in UserIds : CreateProject(t, c)
    \/ \E i \in ProjectIds, c \in UserIds : GetProject(i, c)
    \/ \E i \in ProjectIds, u \in ProjectUpdates, c \in UserIds : UpdateProject(i, u, c)
    \/ \E i \in ProjectIds, c \in UserIds : DeleteProject(i, c)
    \/ \E p \in ProjectIds, c \in UserIds : CreateVideo(p, c)
    \/ \E i \in FileIds, c \in UserIds : GetVideo(i, c)
    \/ \E i \in FileIds, u \in FileUpdates, c \in UserIds : UpdateVideo(i, u, c)
    \/ \E i \in FileIds, c \in UserIds : UpdateVideoStatus(i, "uploaded", c)
    \/ \E i \in FileIds, c \in UserIds, b \in BOOLEAN : DeleteVideo(i, c, b)
    \/ \E p \in ProjectIds, c \in UserIds : CreateAudio(p, c)
    \/ \E i \in FileIds, c \in UserIds : GetAudio(i, c)
    \/ \E i \in FileIds, u \in FileUpdates, c \in UserIds : UpdateAudio(i, u, c)
    \/ \E i \in FileIds, c \in UserIds : UpdateAudioStatus(i, "uploaded", c)
    \/ \E i \in FileIds, c \in UserIds, b \in BOOLEAN : DeleteAudio(i, c, b)
    \/ \E c \in UserIds : ListProjects(c)
    \/ \E p \in ProjectFilters, c \in UserIds : ListVideos(p, c)
    \/ \E p \in ProjectFilters, c \in UserIds : ListAudios(p, c)
    \/ Return

SpecRes == InitRes /\ [][NextRes]_vars

\* ----------------------------------------------------- concurrent requests

\* Each request runs in its own task and session; a task is suspended at
\* every await on the database, and the steps of the tasks interleave there.

\* A request in progress: pc is the step it is suspended before, loc what its
\* session has loaded.
Running(op, arg, pc, loc) ==
    [pc |-> pc, op |-> op, arg |-> arg, loc |-> loc, out |-> Ok(0)]

\* A request whose handler has returned or raised.
Finished(op, arg, out) ==
    [pc |-> "done", op |-> op, arg |-> arg, loc |-> None, out |-> out]

\* AuthService.register up to its first await: the select by email.
RegisterSelect(t, email, password) ==
    LET out == AuthService_register(email, password)
        arg == [email |-> email, password |-> password]
    IN  /\ tasks[t].pc = "free"
        /\ tasks' = [tasks EXCEPT
                       ![t] = IF out.kind = "ok"
                              THEN Running("register", arg, "commit", None)
                              ELSE Finished("register", arg, out)]
        /\ UNCHANGED <<authVars, keyVars, resVars, last>>

\* AuthService.register, db.commit(): the INSERT, refused by the unique index
\* on users.email when the email was taken in between.
RegisterCommit(t) ==
    /\ tasks[t].pc = "commit"
    /\ tasks[t].op = "register"
    /\ LET arg == tasks[t].arg
           taken == UserByEmail(arg.email) # None
       IN  /\ ~taken => Len(users) < MaxUsers
           /\ users' = IF taken THEN users
                       ELSE Append(users, NewUser(arg.email, arg.password))
           /\ tasks' = [tasks EXCEPT
                          ![t] = Finished("register", arg,
                                          IF taken THEN Fault("IntegrityError")
                                          ELSE Ok(Len(users) + 1))]
    /\ UNCHANGED <<now, issued, keyVars, resVars, last>>

\* The dependency chain up to the select of the user and the tests on the
\* row it returned.
ResolveSelect(t, credentials) ==
    LET out == ResolveDependency(credentials)
        arg == [credentials |-> credentials]
    IN  /\ tasks[t].pc = "free"
        /\ tasks' = [tasks EXCEPT
                       ![t] = IF out.kind = "ok"
                              THEN Running("resolve", arg, "stamp",
                                           [user |-> out.user,
                                            last_login_at |-> users[out.user].last_login_at])
                              ELSE Finished("resolve", arg, out)]
        /\ UNCHANGED <<authVars, keyVars, resVars, last>>

\* get_current_user after the select: the clock is read and the debounce
\* test made on the row the session loaded; user.last_login_at = now.
ResolveStamp(t) ==
    /\ tasks[t].pc = "stamp"
    /\ LET loc == tasks[t].loc
       IN  tasks' = [tasks EXCEPT
                       ![t] = IF ShouldRefresh(loc.last_login_at)
                              THEN Running("resolve", tasks[t].arg, "commit",
                                           [loc EXCEPT !.last_login_at = Some(now)])
                              ELSE Finished("resolve", tasks[t].arg, Ok(loc.user))]
    /\ UNCHANGED <<authVars, keyVars, resVars, last>>

\* get_current_user, db.commit(): the UPDATE of the row with the timestamp
\* the task read.
ResolveCommit(t) ==
    /\ tasks[t].pc = "commit"
    /\ tasks[t].op = "resolve"
    /\ LET loc == tasks[t].loc
       IN  /\ users' = [users EXCEPT ![loc.user].last_login_at = loc.last_login_at,
                                      ![loc.user].updated_at = loc.last_login_at]
           /\ tasks' = [tasks EXCEPT
                          ![t] = Finished("resolve", tasks[t].arg, Ok(loc.user))]
    /\ UNCHANGED <<now, issued, keyVars, resVars, last>>

\* The resource types whose writes are interleaved.
ConcKinds == {"project", "video"}

\* get_project / get_video, the ownership guard of a write.
Guard(kind, id, caller) ==
    IF kind = "project" THEN get_project(id, caller) ELSE get_video(id, caller)

\* The payload of the interleaved updates.
Payload(kind) ==
    IF kind = "project" THEN [name |-> Some("n2"), project_type |-> None]
    ELSE [title |-> Some("t2")]

\* delete_project, update_project, delete_video, update_video up to the
\* first await: the guard loads the row into the session.
WriteSelect(t, op, kind, id, caller) ==
    LET guard == Guard(kind, id, caller)
        arg == Call(kind, id, caller)
    IN  /\ tasks[t].pc = "free"
        /\ tasks' = [tasks EXCEPT
                       ![t] = IF guard.kind = "ok"
                              THEN Running(op, arg,
                                           IF op = "delete" /\ kind = "video"
                                           THEN "unlink" ELSE "commit",
                                           [row |-> TableOf(kind)[id]])
                              ELSE Finished(op, arg, guard)]
        /\ UNCHANGED <<authVars, keyVars, resVars, last>>

\* delete_video: storage_service.delete_file(video.file_path).
DeleteUnlink(t, broken) ==
    /\ tasks[t].pc = "unlink"
    /\ files' = delete_file(tasks[t].loc.row.file_path, broken)
    /\ tasks' = [tasks EXCEPT ![t].pc = "commit"]
    /\ UNCHANGED <<authVars, keyVars, projects, videos, audios, nextId, last>>

\* BaseRepository.delete: self.get answers from the session's identity map,
\* so the row counts as present; the DELETE of a row another session has
\* deleted matches nothing and the commit goes through.
DeleteCommit(t) ==
    /\ tasks[t].pc = "commit"
    /\ tasks[t].op = "delete"
    /\ LET arg == tasks[t].arg
           present == arg.id \in DOMAIN TableOf(arg.kind)
           cascade == arg.kind = "project" /\ present
       IN  /\ projects' = IF cascade THEN Remove(projects, {arg.id}) ELSE projects
           /\ videos' = IF cascade THEN Remove(videos, CascadeOf(videos, arg.id))
                        ELSE IF arg.kind = "video" /\ present
                             THEN Remove(videos, {arg.id})
                        ELSE videos
           /\ audios' = IF cascade THEN Remove(audios, CascadeOf(audios, arg.id))
                        ELSE audios
           /\ tasks' = [tasks EXCEPT ![t] = Finished("delete", arg, Ok(arg.id))]
    /\ UNCHANGED <<authVars, keyVars, files, nextId, last>>

\* BaseRepository.update, db.commit(): the UPDATE of a row another session
\* has deleted matches nothing and the flush raises StaleDataError.
UpdateCommit(t) ==
    /\ tasks[t].pc = "commit"
    /\ tasks[t].op = "update"
    /\ LET arg == tasks[t].arg
           present == arg.id \in DOMAIN TableOf(arg.kind)
           out == IF present THEN Ok(arg.id) ELSE Fault("StaleDataError")
       IN  /\ projects' = IF arg.kind = "project" /\ present
                          THEN [projects EXCEPT
                                  ![arg.id] = BaseRepository_update(@, Payload("project"))]
                          ELSE projects
           /\ videos' = IF arg.kind = "video" /\ present
                        THEN [videos EXCEPT
                                ![arg.id] = BaseRepository_update(@, Payload("video"))]
                        ELSE videos
           /\ tasks' = [tasks EXCEPT ![t] = Finished("update", arg, out)]
    /\ UNCHANGED <<authVars, keyVars, audios, files, nextId, last>>

\* The response of a finished request is delivered and its task ends.
Finish(t) ==
    /\ tasks[t].pc = "done"
    /\ tasks' = [tasks EXCEPT ![t] = FreeTask]
    /\ UNCHANGED <<authVars, keyVars, resVars, last>>

\* The user who owns the project and the video the writes are about.
Owner == 1

\* The bearer tokens of the interleaved resolutions: a fresh token of the owner.
ConcCredentials == {Some(Signed(Str(Owner), TRUE, TTL, JWT_ISSUER, JWT_AUDIENCE))}

\* One registered user who owns a project and an uploaded video in it.
InitConc ==
    /\ users = <<NewUser("a@x.com", "pw1")>>
    /\ now = 0
    /\ issued = {}
    /\ ALGORITHM = "HS256"
    /\ JWT_PRIVATE_KEYS = NoKeys
    /\ JWT_PUBLIC_KEYS = NoKeys
    /\ jwt_kid = None
    /\ environment = "development"
    /\ jwt_key_paths = FALSE
    /\ phase = "serving"
    /\ projects = (1 :> [user_id |-> Owner, name |-> "n1", project_type |-> "CINEMATIC"])
    /\ videos = (1 :> [user_id |-> Owner, project_id |-> 1, title |-> "t1",
                       file_path |-> <<1, "videos", 1>>, status |-> "uploading"])
    /\ audios = <<>>
    /\ files = {<<1, "videos", 1>>}
    /\ nextId = [project |-> 2, video |-> 2, audio |-> 1, uuid |-> 2]
    /\ last = Idle
    /\ tasks = NoTasks

NextConc ==
    \/ \E t \in Tasks, e \in Emails, p \in NewPasswords : RegisterSelect(t, e, p)
    \/ \E t \in Tasks : RegisterCommit(t)
    \/ \E t \in Tasks, c \in ConcCredentials : ResolveSelect(t, c)
    \/ \E t \in Tasks : ResolveStamp(t)
    \/ \E t \in Tasks : ResolveCommit(t)
    \/ \E t \in Tasks, op \in {"delete", "update"}, kind \in ConcKinds, c \in UserIds :
          WriteSelect(t, op, kind, 1, c)
    \/ \E t \in Tasks, b \in BOOLEAN : DeleteUnlink(t, b)
    \/ \E t \in Tasks : DeleteCommit(t)
    \/ \E t \in Tasks : UpdateCommit(t)
    \/ \E t \in Tasks : Finish(t)
    \/ \E d \in TickSteps : Tick(d)

SpecConc == InitConc /\ [][NextConc]_vars

\* ------------------------------------------------- vocabulary of the claims

ResolveOps == {"resolve", "me"}

\* The token the last resolution was given: None or <<token>>.
LastToken ==
    IF last.op = "resolve" THEN last.arg.credentials
    ELSE IF last.op = "me" THEN Some(last.arg.token)
    ELSE None

\* What a resolution path answers for a token.
Outcome(path, t) ==
    IF path = "resolve" THEN ResolveDependency(Some(t))
    ELSE AuthService_get_current_user(t)

SignatureValid(t) == t.form = "jwt" /\ t.alg = ALGORITHM /\ t.key = ServerKey

Expired(t) == now > t.exp + JWT_LEEWAY_SECONDS

\* Valid in everything but the principal it names.
OtherwiseValid(t) ==
    /\ SignatureValid(t)
    /\ ~Expired(t)
    /\ t.iss = JWT_ISSUER
    /\ t.aud = JWT_AUDIENCE
    /\ t.hasSub

\* One of the causes of InvalidCredential applies to the token.
InvalidCause(t) ==
    \/ t.form = "garbage"
    \/ t.form = "jwt" /\ ~SignatureValid(t)
    \/ /\ SignatureValid(t)
       /\ ~Expired(t)
       /\ \/ t.iss # JWT_ISSUER
          \/ t.aud # JWT_AUDIENCE
          \/ ~t.hasSub
          \/ ~ParseInt(t.sub).ok
          \/ ParseInt(t.sub).val \notin UserIds

\* A login that must not succeed: unknown email, or a wrong password.
LoginMustFail(email, password) ==
    \/ \A i \in UserIds : users[i].email # email
    \/ \E i \in UserIds : /\ users[i].email = email
                          /\ users[i].hashed_password # hash_password(password)

ResourceKinds == {"project", "video", "audio"}

GuardedOps == {"get", "update", "update_status", "delete"}

NotFound(out) == out.kind = "http" /\ out.status = 404

Forbidden(out) == out.kind = "http" /\ out.status = 403

\* ------------------------------------------------------------------ claims

\* C1: for each owned resource type (project, video, audio), a get, update or
\* delete of resource id r by caller c returns NotFound (404) iff no record
\* with id r exists, Forbidden (403) iff a record exists and its user_id is
\* not c, and succeeds iff a record exists and its user_id is c.
C1_OwnershipOutcome ==
    [][last'.op \in GuardedOps
       => LET call == last'.arg
              exists == call.id \in DOMAIN TableOf(call.kind)
              owned == exists /\ TableOf(call.kind)[call.id].user_id = call.caller
          IN  /\ NotFound(last'.out) <=> ~exists
              /\ Forbidden(last'.out) <=> (exists /\ ~owned)
              /\ last'.out.kind = "ok" <=> owned]_vars

\* C2: a project, video or audio record is updated or deleted (and its
\* stored file removed) only inside an operation whose caller id equals the
\* record's user_id; an operation that ends in NotFound or Forbidden leaves
\* every record and every stored file unchanged.
C2_OnlyOwnerMutates ==
    [][~Ready'
       => LET caller == last'.arg.caller
          IN  /\ \A kind \in ResourceKinds : \A id \in DOMAIN TableOf(kind) :
                    (\/ id \notin DOMAIN TableOf(kind)'
                     \/ TableOf(kind)'[id] # TableOf(kind)[id])
                    => TableOf(kind)[id].user_id = caller
              /\ \A f \in files \ files' :
                    \E kind \in {"video", "audio"} : \E id \in DOMAIN TableOf(kind) :
                        /\ TableOf(kind)[id].file_path = f
                        /\ TableOf(kind)[id].user_id = caller
              /\ (NotFound(last'.out) \/ Forbidden(last'.out))
                    => UNCHANGED resVars]_vars

\* C3: no resolution path (the get_current_user dependency or
\* AuthService.get_current_user) returns a principal whose is_active flag is
\* false at lookup time, whatever token is presented and whenever it was
\* minted.
C3_NoInactivePrincipalResolves ==
    /\ (last.op \in ResolveOps /\ last.out.kind = "ok")
          => users[last.out.user].is_active
    /\ \A t \in PresentedTokens : \A path \in ResolveOps :
          Outcome(path, t).kind = "ok" => users[Outcome(path, t).user].is_active

\* A token login handed out is presented, unexpired, after its principal was
\* deactivated.
C3_Witness ==
    /\ last.op \in ResolveOps
    /\ \E i \in issued : /\ LastToken = Some(i.token)
                         /\ ~Expired(i.token)
                         /\ ~users[i.user].is_active

\* C4: resolving an otherwise-valid token whose principal has is_active=false
\* yields Forbidden (403), an outcome distinct from InvalidCredential (401),
\* on every resolution path including GET /auth/me.
C4_InactiveIsForbidden ==
    \A u \in UserIds :
        (/\ last.op \in ResolveOps
         /\ LastToken # None
         /\ OtherwiseValid(LastToken[1])
         /\ LastToken[1].sub = Str(u)
         /\ ~users[u].is_active)
        => (last.out.kind = "http" /\ last.out.status = 403)

\* C5: resolving a token whose signature is valid but whose exp lies in the
\* past beyond the leeway ends in the typed outcome Rejected(expired), a 401
\* distinct from invalid-credential, on every resolution path;
\* TokenExpiredError never leaves a resolver as an unhandled exception.
C5_ExpiredIsTypedRejection ==
    (/\ last.op \in ResolveOps
     /\ LastToken # None
     /\ SignatureValid(LastToken[1])
     /\ Expired(LastToken[1]))
    => (/\ last.out.kind = "http"
        /\ last.out.status = 401
        /\ last.out.detail = "Token has expired")

\* C6: all InvalidCredential causes (malformed token, bad signature or unknown
\* key, bad issuer or audience, missing sub, sub not parseable as an integer,
\* sub naming no existing principal) produce the same caller-visible outcome, status and message:
\* two resolutions that differ only in the cause are indistinguishable, and
\* none ends in an untyped fault.
C6_InvalidCredentialUniform ==
    (/\ last.op \in ResolveOps
     /\ LastToken # None
     /\ InvalidCause(LastToken[1]))
    => /\ last.out.kind = "http"
       /\ \A t \in PresentedTokens :
             InvalidCause(t) => Outcome(last.op, t) = last.out

\* C7: login with an email that matches no principal and login with an
\* existing email but a wrong password return the identical outcome (401,
\* "Incorrect email or password"); the response does not depend on whether
\* the email exists.
C7_LoginFailureUniform ==
    (last.op = "login" /\ LoginMustFail(last.arg.email, last.arg.password))
    => /\ last.out.kind = "http"
       /\ last.out.status = 401
       /\ last.out.detail = "Incorrect email or password"
       /\ last.ret = None
       /\ \A e \in Emails, p \in Passwords :
             LoginMustFail(e, p) => login(e, p).out = last.out

\* A login with an unknown email, while a wrong password for a registered
\* email is possible too.
C7_Witness ==
    /\ last.op = "login"
    /\ \A i \in UserIds : users[i].email # last.arg.email
    /\ \E e \in Emails, p \in Passwords :
          /\ \E i \in UserIds : users[i].email = e
          /\ LoginMustFail(e, p)

\* C8: register(email, ...) when a principal with exactly that email exists
\* fails with Conflict ("Email already registered"), creates no record and
\* leaves the existing record unchanged; after any sequence of register calls
\* at most one principal exists per email.
C8_RegisterConflict ==
    [][/\ (/\ last'.op = "register"
           /\ \E i \in UserIds : users[i].email = last'.arg.email)
          => /\ users' = users
             /\ last'.out = HTTPException(400, "Email already registered", FALSE)
       /\ \A i, j \in 1..Len(users') :
             users'[i].email = users'[j].email => i = j]_vars

\* A register call was refused for an email that is taken.
C8_Witness ==
    /\ last.op = "register"
    /\ last.out.kind = "http"
    /\ \E i \in UserIds : users[i].email = last.arg.email

\* C9: for every registered active principal p, the token returned by login
\* with p's credentials carries sub = str(p.id), and resolving that token
\* before it expires returns the principal with id p.id and never another.
C9_LoginTokenResolvesToPrincipal ==
    /\ (last.op = "login" /\ last.out.kind = "ok")
          => /\ last.ret # None
             /\ users[last.out.user].email = last.arg.email
             /\ last.ret[1].sub = Str(last.out.user)
    /\ \A i \in issued :
          (last.op \in ResolveOps /\ LastToken = Some(i.token))
          => /\ (users[i.user].is_active /\ now <= i.token.exp)
                   => last.out = Ok(i.user)
             /\ last.out.kind = "ok" => last.out.user = i.user

\* The token of a login was resolved, unexpired, at a later time, while
\* another principal exists.
C9_Witness ==
    /\ last.op \in ResolveOps
    /\ Len(users) >= 2
    /\ \E i \in issued : /\ LastToken = Some(i.token)
                         /\ i.user = 2
                         /\ i.token.iat < now
                         /\ last.out = Ok(i.user)

\* C10: a resolution through the get_current_user dependency writes
\* last_login_at = now iff last_login_at is unset or now - last_login_at is
\* strictly greater than the debounce window (900 s).
C10_DebouncedRefresh ==
    [][(last'.op = "resolve" /\ last'.out.kind = "ok")
       => LET u == last'.out.user
              due == \/ users[u].last_login_at = None
                     \/ now - users[u].last_login_at[1] > 900
          IN  /\ due => /\ users'[u].last_login_at = Some(now)
                         /\ \A v \in UserIds \ {u} : users'[v] = users[v]
              /\ ~due => users' = users]_vars

\* A second resolution exactly one window after the first left the timestamp
\* of the first in place.
C10_Witness ==
    /\ last.op = "resolve"
    /\ last.out.kind = "ok"
    /\ users[last.out.user].last_login_at # None
    /\ now - users[last.out.user].last_login_at[1] = 900

\* C11: if persisting the last_login_at refresh fails, the resolution still
\* returns Authenticated(principal): the outcome of identity resolution does
\* not depend on whether the timestamp write succeeds.
C11_RefreshFailureTolerated ==
    [][(last'.op = "resolve" /\ "commit" \in DOMAIN last'.arg)
       => last'.out = ResolveDependency(last'.arg.credentials)]_vars

\* C12: AuthService.get_current_user (behind GET /auth/me) is equivalent to
\* the get_current_user dependency: for every token and every state of the
\* users table both return the same principal or the same kind of rejection,
\* and both apply the same debounced refresh of last_login_at.
C12_OrchestratorDelegates ==
    [][last'.op = "me"
       => LET ref == ResolveDependency(Some(last'.arg.token))
          IN  /\ last'.out.kind = ref.kind
              /\ last'.out.status = ref.status
              /\ last'.out.user = ref.user
              /\ (ref.kind = "ok" /\ ShouldRefresh(users[ref.user].last_login_at))
                    => users'[ref.user].last_login_at = Some(now)]_vars

\* The token's signature verifies under the key decode resolves for it and
\* the configured algorithm.
SignatureVerifies(t) ==
    /\ t.form = "jwt"
    /\ verification_key(t) # None
    /\ t.alg = ALGORITHM
    /\ Verifies(t.key, verification_key(t)[1])

\* C13: decode_access_token returns the claims iff the token's signature
\* verifies under the resolved key and the configured algorithm, now lies
\* within [iat - leeway, exp + leeway], iss and aud equal the configured
\* issuer and audience and sub is present; in every other case it fails, and
\* a token whose signature does not verify is Invalid.
C13_DecodeIffValid ==
    last.op = "decode"
    => LET t == last.arg.token
           valid == /\ SignatureVerifies(t)
                    /\ t.iat - JWT_LEEWAY_SECONDS <= now
                    /\ now <= t.exp + JWT_LEEWAY_SECONDS
                    /\ t.iss = JWT_ISSUER
                    /\ t.aud = JWT_AUDIENCE
                    /\ t.hasSub
       IN  /\ last.out.kind = "payload" <=> valid
           /\ ~SignatureVerifies(t) => last.out = credentials_exception

\* C14: with signature, issuer and audience valid, a token decodes as Expired
\* (not Invalid) when now > exp + leeway and decodes successfully when
\* now <= exp + leeway.
C14_ExpiryBoundary ==
    (/\ last.op = "decode"
     /\ SignatureVerifies(last.arg.token)
     /\ last.arg.token.iss = JWT_ISSUER
     /\ last.arg.token.aud = JWT_AUDIENCE
     /\ last.arg.token.hasSub)
    => IF now > last.arg.token.exp + JWT_LEEWAY_SECONDS
       THEN last.out = Fault("TokenExpiredError")
       ELSE last.out.kind = "payload"

\* A token was decoded at the last second of its leeway.
C14_Witness ==
    /\ last.op = "decode"
    /\ SignatureVerifies(last.arg.token)
    /\ now = last.arg.token.exp + JWT_LEEWAY_SECONDS
    /\ last.out.kind = "payload"

\* The key the selection rule names for a token: None or <<key>>.
RuleKey(t) ==
    IF ~IsAsymmetric THEN Some(SECRET_KEY)
    ELSE IF t.kid # None
         THEN (IF t.kid[1] \in DOMAIN JWT_PUBLIC_KEYS
               THEN Some(JWT_PUBLIC_KEYS[t.kid[1]])
               ELSE None)
    ELSE IF Cardinality(DOMAIN JWT_PUBLIC_KEYS) = 1
         THEN Some(JWT_PUBLIC_KEYS[CHOOSE k \in DOMAIN JWT_PUBLIC_KEYS : TRUE])
    ELSE None

C16_EmptySubRejected ==
    (/\ last.op = "decode"
     /\ \/ ~last.arg.token.hasSub
        \/ last.arg.token.sub = <<>>)
    => last.out = credentials_exception

StartupOps == {"import", "lifespan"}

\* C17: at startup under an asymmetric algorithm, when the key material
\* cannot be loaded, in production the failure is fatal (startup aborts and
\* no request is ever served), and in development the failure is logged and
\* startup completes with an empty key store.
C17_LoadFailurePolicy ==
    [][/\ (IsAsymmetric /\ last'.op \in StartupOps /\ ~last'.arg.loadable)
          => /\ environment = "production" => phase' = "aborted"
             /\ environment = "development"
                   => /\ phase' # "aborted"
                      /\ JWT_PRIVATE_KEYS' = NoKeys
                      /\ JWT_PUBLIC_KEYS' = NoKeys
       /\ phase = "aborted" => (phase' = "aborted" /\ last'.op \in StartupOps \cup {"idle"})]_vars

\* The operations that sign or verify a token.
CodecOps == {"login", "resolve", "me", "decode"}

\* C18: the key store is written only by load_jwt_keys during startup, before
\* any request is admitted: no sign or verify operation runs before the load
\* has completed, and the store never changes once requests are admitted.
C18_KeyStoreFrozen ==
    [][/\ <<JWT_PRIVATE_KEYS, JWT_PUBLIC_KEYS>>' # <<JWT_PRIVATE_KEYS, JWT_PUBLIC_KEYS>>
             => (last'.op = "lifespan" /\ phase = "configured")
       /\ last'.op \in CodecOps => phase = "serving"
       /\ phase = "serving"
             => UNCHANGED <<JWT_PRIVATE_KEYS, JWT_PUBLIC_KEYS>>]_vars

\* A token was verified with the key that startup had loaded.
C18_Witness ==
    /\ last.op = "decode"
    /\ phase = "serving"
    /\ IsAsymmetric
    /\ JWT_PUBLIC_KEYS # NoKeys
    /\ last.out.kind = "payload"

\* C19: a resource's owning user_id is fixed at creation: whatever
\* update_project, update_video, update_audio and update_*_status calls with
\* whatever payload follow, the record's user_id stays the one it was
\* created with.
C19_OwnerImmutable ==
    [][/\ \A kind \in ResourceKinds :
             \A id \in DOMAIN TableOf(kind) \cap DOMAIN TableOf(kind)' :
                TableOf(kind)'[id].user_id = TableOf(kind)[id].user_id
       /\ \A kind \in ResourceKinds :
             (last'.op = "create" /\ last'.out.kind = "ok" /\ last'.arg.kind = kind)
             => TableOf(kind)'[last'.arg.id].user_id = last'.arg.caller]_vars

\* The owner's update of a project went through and changed the row.
C19_Witness ==
    /\ last.op = "update"
    /\ last.arg.kind = "project"
    /\ last.out.kind = "ok"
    /\ projects[last.arg.id].name = "n2"
    /\ projects[last.arg.id].user_id = last.arg.caller

\* C20: an inactive principal cannot authenticate: for a principal with
\* is_active = false, login with the correct email and password does not
\* yield a token.
C20_InactiveCannotLogin ==
    (/\ last.op = "login"
     /\ \E i \in UserIds : /\ users[i].email = last.arg.email
                           /\ ~users[i].is_active)
    => (last.ret = None /\ last.out.kind # "ok")

\* The rejection of the first check, in the order missing credential, token
\* decode, sub present, principal lookup, active flag, that the credentials
\* fail; Ok when they pass them all.
FirstFailingCheck(credentials) ==
    LET t == credentials[1]
        parsed == ParseInt(t.sub)
    IN  IF credentials = None \/ t.form = "empty"
        THEN HTTPException(401, "Missing bearer token", TRUE)
        ELSE IF SignatureValid(t) /\ Expired(t)
        THEN HTTPException(401, "Token has expired", TRUE)
        ELSE IF ~OtherwiseValid(t) THEN credentials_exception
        ELSE IF t.sub = <<>> THEN credentials_exception
        ELSE IF ~parsed.ok \/ parsed.val \notin UserIds THEN credentials_exception
        ELSE IF ~users[parsed.val].is_active
        THEN HTTPException(403, "Inactive user", FALSE)
        ELSE Ok(parsed.val)

\* C21: identity resolution applies its checks in the fixed order missing
\* credential, token decode (expired or invalid), sub present, principal
\* lookup, active flag, timestamp refresh, and the first failing check alone
\* determines the outcome: an expired token of an inactive principal yields
\* Expired, a valid token naming a nonexistent principal yields
\* InvalidCredential, and the refresh runs only after every check passed.
C21_CheckOrder ==
    [][last'.op = "resolve"
       => /\ last'.out = FirstFailingCheck(last'.arg.credentials)
          /\ last'.out.kind # "ok" => users' = users]_vars

\* The key store holds no key while the algorithm needs one.
EmptyKeyStore == IsAsymmetric /\ JWT_PRIVATE_KEYS = NoKeys /\ JWT_PUBLIC_KEYS = NoKeys

\* C22: under an asymmetric algorithm with an empty key store, every
\* create_access_token call fails without producing a token, every
\* decode_access_token call fails as Invalid, and no request is
\* Authenticated while the store is empty.
C22_EmptyStoreFailsClosed ==
    (EmptyKeyStore /\ phase = "serving")
    => /\ \A u \in UserIds : AuthService_create_token(u).kind = "fault"
       /\ last.op = "login" => (last.ret = None /\ last.out.kind # "ok")
       /\ \A t \in CodecTokens \cup PresentedTokens :
             decode_access_token(t) = credentials_exception
       /\ last.op = "decode" => last.out = credentials_exception
       /\ last.op \in ResolveOps => last.out.kind # "ok"

\* A login with the right password found no key to sign with.
C22_Witness ==
    /\ EmptyKeyStore
    /\ last.op = "login"
    /\ AuthService_authenticate(last.arg.email, last.arg.password) # None
    /\ last.out = Fault("RuntimeError")

\* C23: the listing operations (list_projects, get_videos_by_user,
\* get_audios_by_user, get_videos_by_project, get_audios_by_project) return
\* exactly the records matching the filter whose user_id equals the caller's
\* id; no record owned by another principal appears in a caller's listing.
C23_ListingsOwnedOnly ==
    last.op = "list"
    => LET table == TableOf(last.arg.kind)
           matching == {i \in DOMAIN table :
                          /\ table[i].user_id = last.arg.caller
                          /\ \/ last.arg.project_id = None
                             \/ table[i].project_id = last.arg.project_id[1]}
       IN  /\ last.ret = Some({[id |-> i, row |-> table[i]] : i \in matching})
           /\ \A r \in last.ret[1] : r.row.user_id = last.arg.caller

\* A project's owner listed its videos while the project held a video of
\* another principal.
C23_Witness ==
    /\ last.op = "list"
    /\ last.arg.kind = "video"
    /\ last.arg.project_id # None
    /\ last.arg.project_id[1] \in DOMAIN projects
    /\ projects[last.arg.project_id[1]].user_id = last.arg.caller
    /\ \E i \in DOMAIN videos : /\ videos[i].project_id = last.arg.project_id[1]
                                /\ videos[i].user_id # last.arg.caller

\* The record with this id of this kind was created and has been deleted.
Deleted(kind, id) == id < nextId[kind] /\ id \notin DOMAIN TableOf(kind)

C25_FilesInOwnProject ==
    \A kind \in {"video", "audio"} : \A i \in DOMAIN TableOf(kind) :
        LET v == TableOf(kind)[i]
        IN  /\ v.project_id \in DOMAIN projects
            /\ projects[v.project_id].user_id = v.user_id

\* A stored file exists at path f iff a video or audio record has file_path f.
FilesMatchRecords ==
    files = {videos[i].file_path : i \in DOMAIN videos}
            \cup {audios[i].file_path : i \in DOMAIN audios}

\* C29: record and file stay consistent: a create_video, create_audio,
\* delete_video or delete_audio operation that starts with a stored file at
\* path f iff a video or audio record has file_path f ends that way too,
\* whether it succeeded or failed (a storage delete that returns false and a
\* persistence failure after the file was saved included).
C29_RecordFileConsistent ==
    [][(/\ last'.op \in {"create", "delete"}
        /\ last'.arg.kind \in {"video", "audio"}
        /\ FilesMatchRecords)
       => FilesMatchRecords']_vars

\* C30: a resolution that ends in a rejection writes nothing to the users
\* table, and a resolution that ends in Authenticated changes at most the
\* last_login_at (and the derived updated_at) of the resolved principal; no
\* other field, principal or resource is changed by identity resolution.
C30_ResolutionFrame ==
    [][last'.op \in ResolveOps
       => /\ UNCHANGED <<resVars, keyVars, issued, now>>
          /\ last'.out.kind # "ok" => users' = users
          /\ last'.out.kind = "ok"
                => LET u == last'.out.user
                   IN  /\ Len(users') = Len(users)
                       /\ \A v \in UserIds \ {u} : users'[v] = users[v]
                       /\ users'[u] = [users[u] EXCEPT
                                          !.last_login_at = users'[u].last_login_at,
                                          !.updated_at = users'[u].updated_at]]_vars

\* A resolution refreshed the timestamp of one of two principals.
C30_Witness ==
    /\ last.op = "resolve"
    /\ last.out.kind = "ok"
    /\ Len(users) = 2
    /\ users[last.out.user].last_login_at = Some(now)
    /\ \E v \in UserIds : v # last.out.user /\ users[v].last_login_at # Some(now)

\* C26: when two register calls for the same email are interleaved, exactly
\* one creates a principal and the other ends in Conflict; neither ends in an
\* untyped fault, and at most one record with that email exists afterwards.
C26_RegisterRace ==
    /\ \A t \in Tasks :
          (tasks[t].pc = "done" /\ tasks[t].op = "register")
          => \/ tasks[t].out.kind = "ok"
             \/ tasks[t].out = HTTPException(400, "Email already registered", FALSE)
    /\ \A t1, t2 \in Tasks :
          (/\ t1 # t2
           /\ tasks[t1].pc = "done" /\ tasks[t1].op = "register"
           /\ tasks[t2].pc = "done" /\ tasks[t2].op = "register"
           /\ tasks[t1].arg.email = tasks[t2].arg.email)
          => ~(tasks[t1].out.kind = "ok" /\ tasks[t2].out.kind = "ok")
    /\ \A i, j \in UserIds : users[i].email = users[j].email => i = j

C28_WriteRace ==
    /\ \A t \in Tasks :
          (/\ tasks[t].pc = "done"
           /\ tasks[t].op \in {"delete", "update"}
           /\ tasks[t].arg.caller = Owner)
          => (tasks[t].out.kind = "ok" \/ NotFound(tasks[t].out))
    /\ \A t1, t2 \in Tasks :
          (/\ t1 # t2
           /\ tasks[t1].pc = "done" /\ tasks[t1].op = "delete"
           /\ tasks[t2].pc = "done" /\ tasks[t2].op = "delete"
           /\ tasks[t1].arg = tasks[t2].arg)
          => ~(tasks[t1].out.kind = "ok" /\ tasks[t2].out.kind = "ok")

====
